---------------------------- MODULE Spec2Model ----------------------------
(* Selection algorithms (src/selection_algorithms.py) and the elementary   *)
(* containers (src/data_structures.py) as state machines.                  *)
(*                                                                         *)
(* A call of randomized_quickselect / deterministic_select is a Python     *)
(* call stack: a sequence of frames of the inner function, each with its   *)
(* working list, its rank, its position in the function body and its       *)
(* locals.  Every `return f(...)` is a frame that waits for its callee.    *)
EXTENDS Integers, Sequences, FiniteSets

VARIABLES
    arr,        \* arr[c]: the caller's list passed to call c
    arr0,       \* arr0[c]: that list as it was when the caller built it (history)
    rank,       \* rank[c]: the k passed to call c
    algo,       \* algo[c]: which of the two functions call c runs
    callpc,     \* callpc[c]: "ready", "running", "returned" or "raised"
    result,     \* result[c]: the value returned, or the exception raised
    stack,      \* stack[c]: frames of select/_select, innermost last
    retval,     \* retval[c]: the value the frame that just returned hands to its caller
    rngDraws,   \* the module-global random.Random instance: draws consumed so far
    rngUsers,   \* the calls that advanced the module-global generator (history)
    q_arr,      \* Queue._arr
    q_head,     \* Queue._head
    q_in,       \* every element ever enqueued, in order (history)
    q_out,      \* number of successful dequeues (history)
    q_last,     \* the last Queue operation and what it gave
    a_data,     \* Array._data
    a_size,     \* Array._size
    a_last      \* the last Array operation and what it gave

selvars == <<arr, arr0, rank, algo, callpc, result, stack, retval, rngDraws, rngUsers>>
qvars == <<q_arr, q_head, q_in, q_out, q_last>>
avars == <<a_data, a_size, a_last>>
vars == <<selvars, qvars, avars>>

-----------------------------------------------------------------------------
(* Bounds of the model *)

MaxVal == 2          \* short inputs hold values 0..MaxVal
MaxShortLen == 4     \* short inputs: every list of length 0..MaxShortLen
MaxLongLen == 12     \* long inputs: lengths SmallThreshold+1..MaxLongLen
MaxMod == 13         \* long inputs: (off + i*stride) % mod with mod in 1..MaxMod
MaxDeepExtra == 1    \* deep inputs: lengths DeepLen..DeepLen + MaxDeepExtra
MaxConcLen == 2      \* concurrent callers pass lists of length 0..MaxConcLen
MaxEnqueues == 5     \* enqueue calls made on the Queue
MaxCapacity == 3     \* the Array is constructed with a capacity in 0..MaxCapacity
MaxArraySize == 4    \* insert calls stop once the Array holds this many elements

(* Program constants *)

GroupSize == 5
SmallThreshold == 10

None == -1           \* Python's None; list elements are naturals
RangeError == "IndexError: k is out of bounds"   \* what both range checks raise
Calls == {"c1", "c2"}

-----------------------------------------------------------------------------
(* Python list operations *)

RECURSIVE Filter(_, _, _)
\* [x for x in a if x OP pivot], OP given as "lt", "gt" or "eq"
Filter(a, op, pivot) ==
    IF a = <<>> THEN <<>>
    ELSE LET x == Head(a)
             keep == CASE op = "lt" -> x < pivot
                       [] op = "gt" -> x > pivot
                       [] OTHER     -> x = pivot
         IN  (IF keep THEN <<x>> ELSE <<>>) \o Filter(Tail(a), op, pivot)

\* where a[i] stands in sorted(a), as a Python index: after every smaller element
\* and after the equal ones that come before it in a (the sort is stable)
SortedPos(a, i) ==
    Cardinality({j \in 1..Len(a) : a[j] < a[i]})
        + Cardinality({j \in 1..(i - 1) : a[j] = a[i]})

\* sorted(a): a new ascending list, a itself untouched
sorted(a) == [p \in 1..Len(a) |-> a[CHOOSE i \in 1..Len(a) : SortedPos(a, i) = p - 1]]

\* a[i0:i1] with 0 <= i0 <= i1: Python clips the slice at len(a)
Slice(a, i0, i1) ==
    LET hi == IF i1 < Len(a) THEN i1 ELSE Len(a)
    IN  IF i0 >= hi THEN <<>> ELSE SubSeq(a, i0 + 1, hi)

\* whether a[i] is defined for a Python index i (negative indices count from the end)
IndexOk(a, i) == -Len(a) <= i /\ i < Len(a)

\* a[i] for a Python index i with IndexOk(a, i)
Item(a, i) == IF i >= 0 THEN a[i + 1] ELSE a[Len(a) + i + 1]

-----------------------------------------------------------------------------
(* The pieces of the two selection functions *)

\* the guard with the lower end off by one
RankInRange_FromZero(k, n) == 0 <= k /\ k <= n

\* `1 <= k <= len(arr)`, the guard of both functions
RankInRange(k, n) == 1 <= k /\ k <= n

\* no copy: the caller's list is sorted in place and worked on
ListCopy_SortsCaller(l) == [caller |-> sorted(l), copy |-> sorted(l)]

\* list(arr): the working copy handed to the inner function, and the caller's
\* list as the copy leaves it
ListCopy(l) == [caller |-> l, copy |-> l]

\* the partition with `x <= pivot` for lows
Partition_LowsNotStrict(a, pivot) ==
    [lows   |-> Filter(a, "lt", pivot) \o Filter(a, "eq", pivot),
     highs  |-> Filter(a, "gt", pivot),
     pivots |-> Filter(a, "eq", pivot)]

\* lows, highs, pivots: the three comprehensions around the pivot
Partition(a, pivot) ==
    [lows   |-> Filter(a, "lt", pivot),
     highs  |-> Filter(a, "gt", pivot),
     pivots |-> Filter(a, "eq", pivot)]

\* the branch without an equal bucket: the pivot is never returned directly
Branch_NoEqualBucket(k, nlows, npivots) == IF k <= nlows THEN "lows" ELSE "highs"

\* the branch with the test on lows off by one: k = len(lows) is sent to the pivot
Branch_OffByOne(k, nlows, npivots) ==
    IF k < nlows THEN "lows"
    ELSE IF k <= nlows + npivots THEN "pivot"
    ELSE "highs"

\* the if/elif/else after the partition: which way the frame goes
Branch(k, nlows, npivots) ==
    IF k <= nlows THEN "lows"
    ELSE IF k <= nlows + npivots THEN "pivot"
    ELSE "highs"

\* the rank passed on with highs when the equal bucket is not taken off
HighsRank_KeepsPivots(k, nlows, npivots) == k - nlows

\* the rank passed on with highs
HighsRank(k, nlows, npivots) == k - nlows - npivots

\* groups = [a[i:i + 5] for i in range(0, n, 5)]
Groups(a) ==
    LET m == (Len(a) + GroupSize - 1) \div GroupSize
    IN  [g \in 1..m |-> Slice(a, (g - 1) * GroupSize, (g - 1) * GroupSize + GroupSize)]

\* sorted(g)[len(g) // 2]
GroupMedian(g) == Item(sorted(g), Len(g) \div 2)

\* medians = [sorted(g)[len(g) // 2] for g in groups]
Medians(a) == LET gs == Groups(a) IN [g \in 1..Len(gs) |-> GroupMedian(gs[g])]

\* the index without its odd-count correction
MedianOfMediansIndex_Halved(m) == m \div 2

\* len(medians) // 2 + (1 if len(medians) % 2 else 0)
MedianOfMediansIndex(m) == m \div 2 + (IF m % 2 # 0 THEN 1 ELSE 0)

-----------------------------------------------------------------------------
(* Frames *)

Frame(fn, a, k) ==
    [fn |-> fn, a |-> a, k |-> k, pc |-> "start",
     pivot |-> None, lows |-> <<>>, highs |-> <<>>, pivots |-> <<>>]

Top(c) == stack[c][Len(stack[c])]

AtTop(c, fn, pc) ==
    /\ callpc[c] = "running"
    /\ stack[c] # <<>>
    /\ Top(c).fn = fn
    /\ Top(c).pc = pc

\* the stack with its innermost frame replaced by f
WithTop(c, f) == [stack EXCEPT ![c] = [@ EXCEPT ![Len(@)] = f]]

\* the innermost frame waits (pc) and a new frame is pushed on it
Pushed(c, pc, f) == [stack EXCEPT ![c] = Append([@ EXCEPT ![Len(@)].pc = pc], f)]

\* the innermost frame returns v: to its caller's frame, or out of the call
Return(c, v) ==
    /\ stack' = [stack EXCEPT ![c] = SubSeq(@, 1, Len(@) - 1)]
    /\ IF Len(stack[c]) = 1
       THEN /\ callpc' = [callpc EXCEPT ![c] = "returned"]
            /\ result' = [result EXCEPT ![c] = v]
            /\ retval' = [retval EXCEPT ![c] = None]
       ELSE /\ retval' = [retval EXCEPT ![c] = v]
            /\ UNCHANGED <<callpc, result>>

\* an exception nobody catches unwinds every frame of the call
Raise(c, exc) ==
    /\ stack' = [stack EXCEPT ![c] = <<>>]
    /\ callpc' = [callpc EXCEPT ![c] = "raised"]
    /\ result' = [result EXCEPT ![c] = exc]
    /\ retval' = [retval EXCEPT ![c] = None]

-----------------------------------------------------------------------------
(* randomized_quickselect *)

\* the outer function: the range check, then select(list(arr), k)
randomized_quickselect(c) ==
    /\ callpc[c] = "ready"
    /\ algo[c] = "randomized"
    /\ IF ~RankInRange(rank[c], Len(arr[c]))
       THEN /\ Raise(c, RangeError)
            /\ UNCHANGED arr
       ELSE /\ arr' = [arr EXCEPT ![c] = ListCopy(@).caller]
            /\ stack' = [stack EXCEPT ![c] = <<Frame("select", ListCopy(arr[c]).copy, rank[c])>>]
            /\ callpc' = [callpc EXCEPT ![c] = "running"]
            /\ UNCHANGED <<result, retval>>
    /\ UNCHANGED <<arr0, rank, algo, rngDraws, rngUsers, qvars, avars>>

\* if len(a) == 1: return a[0]
select_base(c) ==
    /\ AtTop(c, "select", "start")
    /\ Len(Top(c).a) = 1
    /\ Return(c, Top(c).a[1])
    /\ UNCHANGED <<arr, arr0, rank, algo, rngDraws, rngUsers, qvars, avars>>

\* pivot = random.choice(a): any element, drawn from the module's generator
select_choose_pivot(c) ==
    /\ AtTop(c, "select", "start")
    /\ Len(Top(c).a) # 1
    /\ IF Top(c).a = <<>>
       THEN /\ Raise(c, "IndexError: Cannot choose from an empty sequence")
            /\ UNCHANGED <<rngDraws, rngUsers>>
       ELSE /\ \E i \in 1..Len(Top(c).a) :
                 stack' = WithTop(c, [Top(c) EXCEPT !.pivot = Top(c).a[i], !.pc = "partition"])
            /\ rngDraws' = rngDraws + 1
            /\ rngUsers' = rngUsers \cup {c}
            /\ UNCHANGED <<callpc, result, retval>>
    /\ UNCHANGED <<arr, arr0, rank, algo, qvars, avars>>

\* lows, highs, pivots
select_partition(c) ==
    /\ AtTop(c, "select", "partition")
    /\ LET p == Partition(Top(c).a, Top(c).pivot)
       IN  stack' = WithTop(c, [Top(c) EXCEPT !.lows = p.lows, !.highs = p.highs,
                                              !.pivots = p.pivots, !.pc = "branch"])
    /\ UNCHANGED <<arr, arr0, rank, algo, callpc, result, retval, rngDraws, rngUsers, qvars, avars>>

\* return select(lows, k) / return pivot / return select(highs, k - ...)
select_branch(c) ==
    /\ AtTop(c, "select", "branch")
    /\ LET f == Top(c)
           way == Branch(f.k, Len(f.lows), Len(f.pivots))
       IN  CASE way = "lows" ->
                  /\ stack' = Pushed(c, "wait", Frame("select", f.lows, f.k))
                  /\ UNCHANGED <<callpc, result, retval>>
             [] way = "pivot" -> Return(c, f.pivot)
             [] OTHER ->
                  /\ stack' = Pushed(c, "wait",
                                     Frame("select", f.highs, HighsRank(f.k, Len(f.lows), Len(f.pivots))))
                  /\ UNCHANGED <<callpc, result, retval>>
    /\ UNCHANGED <<arr, arr0, rank, algo, rngDraws, rngUsers, qvars, avars>>

\* the recursive call came back: `return select(...)` returns its value
select_return(c) ==
    /\ AtTop(c, "select", "wait")
    /\ Return(c, retval[c])
    /\ UNCHANGED <<arr, arr0, rank, algo, rngDraws, rngUsers, qvars, avars>>

-----------------------------------------------------------------------------
(* deterministic_select *)

\* the outer function: the range check, then _select(list(arr), k)
deterministic_select(c) ==
    /\ callpc[c] = "ready"
    /\ algo[c] = "deterministic"
    /\ IF ~RankInRange(rank[c], Len(arr[c]))
       THEN /\ Raise(c, RangeError)
            /\ UNCHANGED arr
       ELSE /\ arr' = [arr EXCEPT ![c] = ListCopy(@).caller]
            /\ stack' = [stack EXCEPT ![c] = <<Frame("_select", ListCopy(arr[c]).copy, rank[c])>>]
            /\ callpc' = [callpc EXCEPT ![c] = "running"]
            /\ UNCHANGED <<result, retval>>
    /\ UNCHANGED <<arr0, rank, algo, rngDraws, rngUsers, qvars, avars>>

\* if n <= 10: return sorted(a)[k - 1]
_select_fallback(c) ==
    /\ AtTop(c, "_select", "start")
    /\ Len(Top(c).a) <= SmallThreshold
    /\ IF IndexOk(Top(c).a, Top(c).k - 1)
       THEN Return(c, Item(sorted(Top(c).a), Top(c).k - 1))
       ELSE Raise(c, "IndexError: list index out of range")
    /\ UNCHANGED <<arr, arr0, rank, algo, rngDraws, rngUsers, qvars, avars>>

\* groups, medians, and the call pivot = _select(medians, median_of_medians_index)
_select_medians(c) ==
    /\ AtTop(c, "_select", "start")
    /\ Len(Top(c).a) > SmallThreshold
    /\ LET medians == Medians(Top(c).a)
       IN  stack' = Pushed(c, "wait_pivot",
                           Frame("_select", medians, MedianOfMediansIndex(Len(medians))))
    /\ UNCHANGED <<arr, arr0, rank, algo, callpc, result, retval, rngDraws, rngUsers, qvars, avars>>

\* the call on the medians came back: its value is the pivot
_select_pivot(c) ==
    /\ AtTop(c, "_select", "wait_pivot")
    /\ stack' = WithTop(c, [Top(c) EXCEPT !.pivot = retval[c], !.pc = "partition"])
    /\ retval' = [retval EXCEPT ![c] = None]
    /\ UNCHANGED <<arr, arr0, rank, algo, callpc, result, rngDraws, rngUsers, qvars, avars>>

\* lows, highs, pivots
_select_partition(c) ==
    /\ AtTop(c, "_select", "partition")
    /\ LET p == Partition(Top(c).a, Top(c).pivot)
       IN  stack' = WithTop(c, [Top(c) EXCEPT !.lows = p.lows, !.highs = p.highs,
                                              !.pivots = p.pivots, !.pc = "branch"])
    /\ UNCHANGED <<arr, arr0, rank, algo, callpc, result, retval, rngDraws, rngUsers, qvars, avars>>

\* return _select(lows, k) / return pivot / return _select(highs, k - ...)
_select_branch(c) ==
    /\ AtTop(c, "_select", "branch")
    /\ LET f == Top(c)
           way == Branch(f.k, Len(f.lows), Len(f.pivots))
       IN  CASE way = "lows" ->
                  /\ stack' = Pushed(c, "wait", Frame("_select", f.lows, f.k))
                  /\ UNCHANGED <<callpc, result, retval>>
             [] way = "pivot" -> Return(c, f.pivot)
             [] OTHER ->
                  /\ stack' = Pushed(c, "wait",
                                     Frame("_select", f.highs, HighsRank(f.k, Len(f.lows), Len(f.pivots))))
                  /\ UNCHANGED <<callpc, result, retval>>
    /\ UNCHANGED <<arr, arr0, rank, algo, rngDraws, rngUsers, qvars, avars>>

\* the recursive call came back: `return _select(...)` returns its value
_select_return(c) ==
    /\ AtTop(c, "_select", "wait")
    /\ Return(c, retval[c])
    /\ UNCHANGED <<arr, arr0, rank, algo, rngDraws, rngUsers, qvars, avars>>

-----------------------------------------------------------------------------
(* Inputs *)

\* every list of length 0..MaxShortLen over 0..MaxVal
ShortLists == UNION {[1..n -> 0..MaxVal] : n \in 0..MaxShortLen}

\* a list of length n that walks through 0..mod-1 in steps of stride
Pattern(n, mod, stride, off) == [i \in 1..n |-> (off + (i - 1) * stride) % mod]

\* lists too long for the small-input fallback: sorted runs, reversed runs,
\* permutations, few distinct values, all equal
LongLists ==
    UNION {UNION {{Pattern(n, mod, stride, off) : stride \in 0..(mod - 1), off \in 0..(mod - 1)}
                  : mod \in 1..MaxMod}
           : n \in (SmallThreshold + 1)..MaxLongLen}

\* the shortest list whose medians are themselves too many for the fallback
DeepLen == GroupSize * SmallThreshold + 1

\* lists whose medians need a median-of-medians pivot of their own
DeepLists ==
    UNION {{Pattern(n, n + 2, stride, 0) : stride \in (0..MaxMod) \cup {n + 1}}
           : n \in DeepLen..(DeepLen + MaxDeepExtra)}

InputLists(fn) ==
    IF fn = "randomized" THEN ShortLists ELSE ShortLists \cup LongLists \cup DeepLists

\* ranks a caller may pass: the valid ones, the two just outside, and a negative one
InputRanks(l) == -1..(Len(l) + 1)

InitContainers ==
    /\ q_arr = <<>> /\ q_head = 0 /\ q_in = <<>> /\ q_out = 0
    /\ q_last = [op |-> "init", ok |-> TRUE, val |-> None]
    /\ a_data = <<>> /\ a_size = 0
    /\ a_last = [op |-> "init", ok |-> TRUE, val |-> None, index |-> 0, before |-> <<>>]

InitCalls ==
    /\ arr = [c \in Calls |-> <<>>] /\ arr0 = arr
    /\ rank = [c \in Calls |-> 0]
    /\ algo = [c \in Calls |-> "none"]
    /\ callpc = [c \in Calls |-> "off"]
    /\ result = [c \in Calls |-> None]
    /\ stack = [c \in Calls |-> <<>>]
    /\ retval = [c \in Calls |-> None]
    /\ rngDraws = 0
    /\ rngUsers = {}

\* one caller makes one call of either function
Init ==
    /\ \E fn \in {"randomized", "deterministic"} : \E l \in InputLists(fn) : \E k \in InputRanks(l) :
          /\ algo = [c \in Calls |-> IF c = "c1" THEN fn ELSE "none"]
          /\ arr = [c \in Calls |-> IF c = "c1" THEN l ELSE <<>>]
          /\ rank = [c \in Calls |-> IF c = "c1" THEN k ELSE 0]
    /\ arr0 = arr
    /\ callpc = [c \in Calls |-> IF c = "c1" THEN "ready" ELSE "off"]
    /\ result = [c \in Calls |-> None]
    /\ stack = [c \in Calls |-> <<>>]
    /\ retval = [c \in Calls |-> None]
    /\ rngDraws = 0
    /\ rngUsers = {}
    /\ InitContainers

Next ==
    \E c \in Calls :
        \/ randomized_quickselect(c)
        \/ select_base(c)
        \/ select_choose_pivot(c)
        \/ select_partition(c)
        \/ select_branch(c)
        \/ select_return(c)
        \/ deterministic_select(c)
        \/ _select_fallback(c)
        \/ _select_medians(c)
        \/ _select_pivot(c)
        \/ _select_partition(c)
        \/ _select_branch(c)
        \/ _select_return(c)

Spec == Init /\ [][Next]_vars

\* the caller builds the list it will pass to fn
caller_builds(c, fn, l) ==
    /\ callpc[c] = "off"
    /\ algo' = [algo EXCEPT ![c] = fn]
    /\ arr' = [arr EXCEPT ![c] = l]
    /\ arr0' = [arr0 EXCEPT ![c] = l]
    /\ callpc' = [callpc EXCEPT ![c] = "built"]
    /\ UNCHANGED <<rank, result, stack, retval, rngDraws, rngUsers, qvars, avars>>

\* the caller picks the rank and is about to call
caller_picks(c, k) ==
    /\ callpc[c] = "built"
    /\ rank' = [rank EXCEPT ![c] = k]
    /\ callpc' = [callpc EXCEPT ![c] = "ready"]
    /\ UNCHANGED <<arr, arr0, algo, result, stack, retval, rngDraws, rngUsers, qvars, avars>>

\* the lists of the fair specification: every short list and, for _select, one
\* modulus of the long lists, and the all-equal, sorted and reversed deep list
FairLists(fn) ==
    IF fn = "randomized" THEN ShortLists
    ELSE ShortLists
         \cup {Pattern(n, MaxMod, stride, 0) :
                  n \in (SmallThreshold + 1)..MaxLongLen, stride \in 0..(MaxMod - 1)}
         \cup {Pattern(DeepLen, DeepLen + 2, stride, 0) : stride \in {0, 1, DeepLen + 1}}

InitFair == InitCalls /\ InitContainers

NextFair ==
    \/ /\ callpc["c1"] = "off"
       /\ \E fn \in {"randomized", "deterministic"} : \E l \in FairLists(fn) :
             caller_builds("c1", fn, l)
    \/ \E k \in InputRanks(arr["c1"]) : caller_picks("c1", k)
    \/ Next

\* the same single call, begun from the caller; a call that can take a step
\* takes it: the interpreter does not stop in the middle of a call
FairSpec == InitFair /\ [][NextFair]_vars /\ WF_vars(NextFair)

\* two callers, each with a list of its own, call randomized_quickselect at once
InitConcurrent ==
    /\ arr \in [Calls -> UNION {[1..n -> 0..MaxVal] : n \in 0..MaxConcLen}]
    /\ arr0 = arr
    /\ rank \in [Calls -> -1..(MaxConcLen + 1)]
    /\ \A c \in Calls : rank[c] \in InputRanks(arr[c])
    /\ algo = [c \in Calls |-> "randomized"]
    /\ callpc = [c \in Calls |-> "ready"]
    /\ result = [c \in Calls |-> None]
    /\ stack = [c \in Calls |-> <<>>]
    /\ retval = [c \in Calls |-> None]
    /\ rngDraws = 0
    /\ rngUsers = {}
    /\ InitContainers

NextConcurrent ==
    \E c \in Calls :
        \/ randomized_quickselect(c)
        \/ select_base(c)
        \/ select_choose_pivot(c)
        \/ select_partition(c)
        \/ select_branch(c)
        \/ select_return(c)

SpecConcurrent == InitConcurrent /\ [][NextConcurrent]_vars

-----------------------------------------------------------------------------
(* Queue *)

Elements == 0..MaxVal

\* Queue.size()
size == Len(q_arr) - q_head

\* Queue.is_empty()
is_empty == q_head >= Len(q_arr)

\* the cleanup with the slice one element too far
Compact_DropsOne(a, head) == [arr |-> Slice(a, head + 1, Len(a)), head |-> 0]

\* the cleanup of dequeue: _arr = _arr[_head:], _head = 0
Compact(a, head) == [arr |-> Slice(a, head, Len(a)), head |-> 0]

\* Queue.enqueue(x)
enqueue(x) ==
    /\ Len(q_in) < MaxEnqueues
    /\ q_arr' = Append(q_arr, x)
    /\ q_in' = Append(q_in, x)
    /\ q_last' = [op |-> "enqueue", ok |-> TRUE, val |-> None]
    /\ UNCHANGED <<q_head, q_out, selvars, avars>>

\* Queue.dequeue()
dequeue ==
    /\ IF q_head >= Len(q_arr)
       THEN /\ q_last' = [op |-> "dequeue", ok |-> FALSE, val |-> None]
            /\ UNCHANGED <<q_arr, q_head, q_out>>
       ELSE LET val == Item(q_arr, q_head)
                head == q_head + 1
                c == IF head > Len(q_arr) \div 2
                     THEN Compact(q_arr, head)
                     ELSE [arr |-> q_arr, head |-> head]
            IN  /\ q_arr' = c.arr
                /\ q_head' = c.head
                /\ q_out' = q_out + 1
                /\ q_last' = [op |-> "dequeue", ok |-> TRUE, val |-> val]
    /\ UNCHANGED <<q_in, selvars, avars>>

\* Queue.peek()
peek ==
    /\ IF q_head >= Len(q_arr)
       THEN q_last' = [op |-> "peek", ok |-> FALSE, val |-> None]
       ELSE q_last' = [op |-> "peek", ok |-> TRUE, val |-> Item(q_arr, q_head)]
    /\ UNCHANGED <<q_arr, q_head, q_in, q_out, selvars, avars>>

InitQueue == InitCalls /\ InitContainers

NextQueue ==
    \/ \E x \in Elements : enqueue(x)
    \/ dequeue
    \/ peek

SpecQueue == InitQueue /\ [][NextQueue]_vars

-----------------------------------------------------------------------------
(* Array *)

\* the elements the Array holds: _data[0:_size]
Held == Slice(a_data, 0, a_size)

\* Array._resize(new_cap): the new storage (every call passes new_cap >= n)
Resize(data, n, new_cap) == [i \in 1..new_cap |-> IF i <= n THEN data[i] ELSE None]

\* the shifting loop of insert and the store: data[index] = value
ShiftRight(data, n, index, value) ==
    [i \in 1..Len(data) |->
        IF i - 1 < index \/ i - 1 > n THEN data[i]
        ELSE IF i - 1 = index THEN value
        ELSE data[i - 1]]

\* the shifting loop of delete and the clearing of the last slot
ShiftLeft(data, n, index) ==
    [i \in 1..Len(data) |->
        IF i - 1 < index \/ i - 1 > n - 1 THEN data[i]
        ELSE IF i - 1 = n - 1 THEN None
        ELSE data[i + 1]]

\* Array.insert(index, value)
insert(index, value) ==
    /\ a_size < MaxArraySize
    /\ IF index < 0 \/ index > a_size
       THEN /\ a_last' = [op |-> "insert", ok |-> FALSE, val |-> "IndexError: Index out of bounds",
                          index |-> index, before |-> Held]
            /\ UNCHANGED <<a_data, a_size>>
       ELSE LET data == IF a_size = Len(a_data)
                        THEN Resize(a_data, a_size, Len(a_data) * 2)
                        ELSE a_data
            IN  IF a_size >= Len(data)
                THEN \* the store meets a slot the storage does not have
                     /\ a_data' = data
                     /\ a_last' = [op |-> "insert", ok |-> FALSE,
                                   val |-> "IndexError: list assignment index out of range",
                                   index |-> index, before |-> Held]
                     /\ UNCHANGED a_size
                ELSE /\ a_data' = ShiftRight(data, a_size, index, value)
                     /\ a_size' = a_size + 1
                     /\ a_last' = [op |-> "insert", ok |-> TRUE, val |-> value,
                                   index |-> index, before |-> Held]
    /\ UNCHANGED <<selvars, qvars>>

\* Array.delete(index)
delete(index) ==
    /\ IF index < 0 \/ index >= a_size
       THEN /\ a_last' = [op |-> "delete", ok |-> FALSE, val |-> "IndexError: Index out of bounds",
                          index |-> index, before |-> Held]
            /\ UNCHANGED <<a_data, a_size>>
       ELSE LET data == ShiftLeft(a_data, a_size, index)
                n == a_size - 1
            IN  /\ a_data' = IF 0 < n /\ n <= Len(data) \div 4
                             THEN Resize(data, n, Len(data) \div 2)
                             ELSE data
                /\ a_size' = n
                /\ a_last' = [op |-> "delete", ok |-> TRUE, val |-> Item(a_data, index),
                              index |-> index, before |-> Held]
    /\ UNCHANGED <<selvars, qvars>>

\* Array.access(index)
access(index) ==
    /\ IF index < 0 \/ index >= a_size
       THEN a_last' = [op |-> "access", ok |-> FALSE, val |-> "IndexError: Index out of bounds",
                       index |-> index, before |-> Held]
       ELSE a_last' = [op |-> "access", ok |-> TRUE, val |-> Item(a_data, index),
                       index |-> index, before |-> Held]
    /\ UNCHANGED <<a_data, a_size, selvars, qvars>>

\* Array(capacity): _data = [None] * capacity, _size = 0
InitArray ==
    /\ InitCalls
    /\ q_arr = <<>> /\ q_head = 0 /\ q_in = <<>> /\ q_out = 0
    /\ q_last = [op |-> "init", ok |-> TRUE, val |-> None]
    /\ \E capacity \in 0..MaxCapacity : a_data = [i \in 1..capacity |-> None]
    /\ a_size = 0
    /\ a_last = [op |-> "init", ok |-> TRUE, val |-> None, index |-> 0, before |-> <<>>]

NextArray ==
    \/ \E index \in -1..(a_size + 1) : \E value \in Elements : insert(index, value)
    \/ \E index \in -1..(a_size + 1) : delete(index)
    \/ \E index \in -1..(a_size + 1) : access(index)

SpecArray == InitArray /\ [][NextArray]_vars

-----------------------------------------------------------------------------
(* What the properties are stated with *)

\* how many positions of l hold a value for which P holds
CountLt(l, v) == Cardinality({i \in 1..Len(l) : l[i] < v})
CountLe(l, v) == Cardinality({i \in 1..Len(l) : l[i] <= v})
CountGe(l, v) == Cardinality({i \in 1..Len(l) : l[i] >= v})
CountEq(l, v) == Cardinality({i \in 1..Len(l) : l[i] = v})

Values(l) == {l[i] : i \in 1..Len(l)}

\* v is the k-th smallest of l: fewer than k elements lie below it, at least k at or below
IsOrderStatistic(l, k, v) == v \in Values(l) /\ CountLt(l, v) < k /\ k <= CountLe(l, v)

ValidCall(c) == 1 <= rank[c] /\ rank[c] <= Len(arr0[c])

Started == {c \in Calls : callpc[c] \notin {"off", "built"}}

\* the frames of call c whose pivot is chosen, and those whose buckets are built
Frames(c) == {stack[c][i] : i \in 1..Len(stack[c])}
WithPivot(c) == {f \in Frames(c) : f.pc \in {"partition", "branch", "wait"}}
WithBuckets(c) == {f \in Frames(c) : f.pc \in {"branch", "wait"}}

-----------------------------------------------------------------------------
(* C1 *)

\* C1: a call with a valid rank that has ended has returned, and the value is
\* sorted(seq)[k-1], the k-th smallest of the caller's list, whichever of the
\* two functions ran and whatever pivots were drawn.
C1_ReturnsOrderStatistic ==
    \A c \in Started :
        (ValidCall(c) /\ callpc[c] \in {"returned", "raised"}) =>
            /\ callpc[c] = "returned"
            /\ IsOrderStatistic(arr0[c], rank[c], result[c])
            /\ result[c] = Item(sorted(arr0[c]), rank[c] - 1)

\* a randomized call on three distinct values returned the middle one after two draws
C1_Witness ==
    \E c \in Started :
        /\ algo[c] = "randomized" /\ callpc[c] = "returned"
        /\ Cardinality(Values(arr0[c])) = 3 /\ rank[c] = 2
        /\ rngDraws >= 2

-----------------------------------------------------------------------------
(* C2 *)

\* C2: a call with k < 1 or k > len(seq) never has a frame of the inner function
\* (no pivot, no partition, no recursive step), never draws from the generator,
\* and once it has ended it has raised the range error: it never returns a value.
C2_RangeErrorFirst ==
    \A c \in Started :
        ~ValidCall(c) =>
            /\ stack[c] = <<>>
            /\ c \notin rngUsers
            /\ callpc[c] \in {"ready", "raised"}
            /\ callpc[c] = "raised" => result[c] = RangeError

\* k = n + 1 on a non-empty list has raised
C2_Witness ==
    \E c \in Started :
        /\ callpc[c] = "raised" /\ result[c] = RangeError
        /\ arr0[c] # <<>> /\ rank[c] = Len(arr0[c]) + 1

-----------------------------------------------------------------------------
(* C3 *)

AllEqual(l) == \A i \in 1..Len(l) : l[i] = l[1]

\* C3: every call with a valid rank returns, whatever pivots are drawn; on a list
\* of equal elements what it returns is that element.
C3_Terminates ==
    /\ \A c \in Calls : (callpc[c] = "ready" /\ ValidCall(c)) ~> (callpc[c] = "returned")
    /\ [](\A c \in Started :
             (callpc[c] = "returned" /\ AllEqual(arr0[c])) => result[c] = arr0[c][1])

\* a randomized call on a list of equal elements, as long as short lists get, returned
C3_Witness ==
    \E c \in Started :
        /\ algo[c] = "randomized" /\ callpc[c] = "returned"
        /\ AllEqual(arr0[c]) /\ Len(arr0[c]) = MaxShortLen
        /\ c \in rngUsers

-----------------------------------------------------------------------------
(* C4 *)

\* C4: the caller's list is, in every state of a call (before it, at every
\* recursion level, after it returned or raised), the list the caller built.
C4_CallerListUnchanged == \A c \in Started : arr[c] = arr0[c]

\* a call on a list that is not in ascending order has returned
C4_Witness ==
    \E c \in Started :
        /\ callpc[c] = "returned"
        /\ arr0[c] # sorted(arr0[c])
        /\ Len(arr0[c]) > SmallThreshold

-----------------------------------------------------------------------------
(* C6 *)

CeilDiv(n, d) == (n + d - 1) \div d

\* 3 * (ceil(m / 2) - 1) with m = ceil(n / 5)
SideBound(n) == 3 * (CeilDiv(CeilDiv(n, GroupSize), 2) - 1)

\* C6: in deterministic_select, a working list of length n > 10 has at least
\* 3*(ceil(m/2)-1) elements <= its pivot and as many >= it, m = ceil(n/5), and
\* neither lows nor highs holds more than n - 3*(ceil(m/2)-1) elements.
C6_PivotNotExtreme ==
    \A c \in Started :
        /\ \A f \in WithPivot(c) :
              (f.fn = "_select" /\ Len(f.a) > SmallThreshold) =>
                  /\ CountLe(f.a, f.pivot) >= SideBound(Len(f.a))
                  /\ CountGe(f.a, f.pivot) >= SideBound(Len(f.a))
        /\ \A f \in WithBuckets(c) :
              (f.fn = "_select" /\ Len(f.a) > SmallThreshold) =>
                  /\ Len(f.lows) <= Len(f.a) - SideBound(Len(f.a))
                  /\ Len(f.highs) <= Len(f.a) - SideBound(Len(f.a))

\* a list of distinct values with 11 groups is partitioned around its pivot
C6_Witness ==
    \E c \in Started : \E f \in WithBuckets(c) :
        /\ f.fn = "_select" /\ Len(f.a) >= DeepLen
        /\ Len(f.pivots) = 1
        /\ f.lows # <<>> /\ f.highs # <<>>

-----------------------------------------------------------------------------
(* C9 *)

\* C9: in every frame of either function the pivot is an element of the working
\* list; once the buckets are built the equal bucket is non-empty, the three
\* lengths add up to the working list's, the buckets hold exactly its elements
\* (each value as often), and lows and highs are both shorter than it.
C9_PartitionShape ==
    \A c \in Started :
        /\ \A f \in WithPivot(c) : f.pivot \in Values(f.a)
        /\ \A f \in WithBuckets(c) :
              /\ f.pivots # <<>>
              /\ Len(f.lows) + Len(f.pivots) + Len(f.highs) = Len(f.a)
              /\ \A v \in Values(f.a) \cup Values(f.lows \o f.pivots \o f.highs) :
                    CountEq(f.lows \o f.pivots \o f.highs, v) = CountEq(f.a, v)
              /\ Len(f.lows) < Len(f.a)
              /\ Len(f.highs) < Len(f.a)

\* a _select frame whose pivot came back from the call on its medians has built
\* three non-empty buckets, with duplicates of the pivot
C9_Witness ==
    \E c \in Started : \E f \in WithBuckets(c) :
        /\ f.fn = "_select" /\ f.pc = "branch"
        /\ f.lows # <<>> /\ f.highs # <<>> /\ Len(f.pivots) >= 2

-----------------------------------------------------------------------------
(* C10 *)

\* C10: every frame of select and _select works on a non-empty list with a rank
\* in 1..len(a); so the only exception a call ever raises is the range error of
\* the outer function (the fallback never indexes out of range, random.choice
\* never meets an empty list).
C10_FramesValid ==
    \A c \in Started :
        /\ \A f \in Frames(c) : f.a # <<>> /\ 1 <= f.k /\ f.k <= Len(f.a)
        /\ callpc[c] = "raised" => (result[c] = RangeError /\ ~ValidCall(c))

\* a frame reached through highs, with a rank lowered by the two other buckets,
\* below a frame that itself waits
C10_Witness ==
    \E c \in Started :
        /\ Len(stack[c]) >= 2
        /\ LET f == stack[c][Len(stack[c]) - 1]
               g == stack[c][Len(stack[c])]
           IN  /\ f.pc = "wait" /\ g.a = f.highs /\ f.lows # <<>>
               /\ g.k = f.k - Len(f.lows) - Len(f.pivots)
               /\ g.k < f.k

-----------------------------------------------------------------------------
(* C5 *)

\* C5: no state is written by more than one call: the generator a call draws its
\* pivots from is written by that call alone.
C5_NoSharedRandomness == Cardinality(rngUsers) <= 1

-----------------------------------------------------------------------------
(* C7 *)

\* C7: the queue holds, oldest first, exactly the elements enqueued and not yet
\* dequeued, and size() counts them; a dequeue that succeeded returned the oldest
\* of them, a peek that succeeded returned the oldest still there; dequeue and
\* peek fail exactly on an empty queue.
C7_QueueIsFifo ==
    /\ 0 <= q_head /\ q_head <= Len(q_arr)
    /\ Slice(q_arr, q_head, Len(q_arr)) = SubSeq(q_in, q_out + 1, Len(q_in))
    /\ size = Len(q_in) - q_out
    /\ is_empty <=> (size = 0)
    /\ (q_last.op = "dequeue" /\ q_last.ok) => (q_out >= 1 /\ q_last.val = q_in[q_out])
    /\ (q_last.op = "peek" /\ q_last.ok) => (size > 0 /\ q_last.val = q_in[q_out + 1])
    /\ (q_last.op \in {"dequeue", "peek"} /\ ~q_last.ok) => size = 0

\* a dequeue that compacted the list, with elements still queued behind it
C7_Witness ==
    /\ q_last.op = "dequeue" /\ q_last.ok
    /\ q_head = 0 /\ q_out >= 2 /\ Len(q_arr) >= 2
    /\ Len(q_arr) < Len(q_in) - 1

-----------------------------------------------------------------------------
(* C8 *)

\* the list l with v put in at Python index i
Inserted(l, i, v) == SubSeq(l, 1, i) \o <<v>> \o SubSeq(l, i + 1, Len(l))

\* C8: an insert at an index in 0..size succeeded: the elements from index on
\* moved one place right, value sits at index, the size grew by one; and the
\* size never exceeds the capacity.
C8_InsertSucceeds ==
    /\ a_size <= Len(a_data)
    /\ (a_last.op = "insert" /\ 0 <= a_last.index /\ a_last.index <= Len(a_last.before)) =>
          /\ a_last.ok
          /\ Held = Inserted(a_last.before, a_last.index, a_last.val)
          /\ a_size = Len(a_last.before) + 1

=============================================================================
